---- MODULE Spec2Model ----
(***************************************************************************)
(* Model of the hydromt_uwbm land-use workflow.                            *)
(*                                                                         *)
(* Geometry is modelled on a strip of unit cells 0 .. NCells-1: a polygon  *)
(* is a set of cells, a line feature is a segment crossing the strip at an *)
(* integer abscissa, and buffering it by d covers the cells between        *)
(* abscissa pos-d and pos+d.  Areas are exact rationals with denominator   *)
(* AreaDen; floating-point error is not modelled.                          *)
(***************************************************************************)
EXTENDS Integers, Sequences, FiniteSets, TLC

\* ------------------------------------------------------------------ bounds
NCells == 2
MaxFeat == 2

Universe == 0 .. (NCells - 1)
Positions == 0 .. NCells
FClasses == {"road", "track"}

\* ------------------------------------------------------- program constants
\* The five land-use classes, in overlay order (lowest priority first).
OverlayOrder == <<"unpaved", "water", "open_paved", "closed_paved", "paved_roof">>
ValidReclass == {"paved_roof", "closed_paved", "open_paved", "unpaved", "water"}
RequiredColumns == {"fclass", "width_t", "reclass"}

MaxRecs == 5
AreaDen == 2

\* Record areas tried by the table checks, in units of 1/AreaDen: no area, the
\* smallest area, one whole unit, and an area that makes the total exceed 1000.
AreaVals == {0, 1, AreaDen, 2496 * AreaDen}

VARIABLES
    osm_in,     \* the arguments of a landuse_from_osm call
    osm_out,    \* what the call returned or raised
    tbl_in,     \* the land-use map given to landuse_table
    tbl_out,    \* the table it returned
    catalog,    \* the data catalog: the source layers it can serve (avail) and
                \* whether a request that finds no feature raises (nodata_raises)
    geoms,      \* UWBM.geoms: the model's named geometry products
    tables,     \* UWBM.tables
    config,     \* UWBM.config
    last,       \* the last method call on the model and its arguments
    err,        \* the exception that call raised, "none" if it returned
    calls,      \* what that call reached before it ended
    forcing,    \* UWBM.forcing: the named forcing tables
    files,      \* the files under the model root
    reader,     \* what a second model, opened on the same root, has read back
    create,     \* a call of the config classes' create: the dict given and
                \* what each class returned or raised
    frames      \* the argument objects of the workflow functions, as the
                \* caller sees them, and the functions called so far

osm_vars == <<osm_in, osm_out, tbl_in, tbl_out>>
uwbm_vars == <<catalog, geoms, tables, config, last, err, calls>>
io_vars == <<forcing, files, reader, create>>
vars == <<osm_in, osm_out, tbl_in, tbl_out, catalog, geoms, tables, config, last,
          err, calls, forcing, files, reader, create, frames>>

\* ---------------------------------------------------------------- geometry
\* A layer of polygons (GeoDataFrame) is a set of records [reclass, geometry].
Feature(k, g) == [reclass |-> k, geometry |-> g]

Cover(df) == UNION {f.geometry : f \in df}

\* The connected parts of a cell set (explode of a multi-part geometry).
Parts(g) ==
    {lo .. hi : lo \in g, hi \in g} \cap
    {p \in SUBSET g : p # {} /\ \A c \in p : (c - 1 \in g => c - 1 \in p)
                                          /\ (c + 1 \in g => c + 1 \in p)}

Explode(df) == UNION {{Feature(f.reclass, p) : p \in Parts(f.geometry)} : f \in df}

\* geometry.buffer(distance) of a line crossing the strip at abscissa pos.
LineBuffer(pos, d) == (pos - d) .. (pos + d - 1)

OverlayIntersectionNoClip(df1, df2) == df1

\* gpd.overlay(df1, df2, how="intersection"): empty results are dropped.
OverlayIntersection(df1, df2) ==
    {Feature(p[1].reclass, p[1].geometry \cap p[2].geometry) :
        p \in {q \in df1 \X df2 : q[1].geometry \cap q[2].geometry # {}}}

\* gpd.overlay(df1, df2, how="difference"): empty results are dropped.
OverlayDifference(df1, df2) ==
    {Feature(f.reclass, f.geometry \ Cover(df2)) :
        f \in {h \in df1 : h.geometry \ Cover(df2) # {}}}

DissolveNone(df) == df

\* GeoDataFrame.dissolve(by="reclass"): one record per class present.
Dissolve(df) ==
    {Feature(k, UNION {f.geometry : f \in {h \in df : h.reclass = k}}) :
        k \in {f.reclass : f \in df}}


\* ------------------------------------------------------- landuse_from_osm
\* A line layer is [has_fclass, feats]: whether the frame has an fclass column
\* (the substitute for a layer that could not be fetched has only a geometry
\* column) and its features [fclass, pos].  Rows are kept up to duplicates.
LineLayer(h, F) == [has_fclass |-> h, feats |-> F]

\* A mapping table is [cols, dtype, rows]: its columns, the dtype of width_t
\* and its rows [fclass, width_t, reclass].  Widths are even, so that half a
\* width is a whole number of cells.
MappingTable(c, d, R) == [cols |-> c, dtype |-> d, rows |-> R]
MapRow(f, w, k) == [fclass |-> f, width_t |-> w, reclass |-> k]

MergeLinesFilled(roads, railways, waterways, landuse_mapping) ==
    LET lines == roads.feats \cup railways.feats \cup waterways.feats
    IN UNION {
        IF \E r \in landuse_mapping.rows : r.fclass = l.fclass
        THEN {[pos |-> l.pos, fclass |-> l.fclass, width_t |-> r.width_t,
               reclass |-> r.reclass] :
                 r \in {q \in landuse_mapping.rows : q.fclass = l.fclass}}
        ELSE {[pos |-> l.pos, fclass |-> l.fclass, width_t |-> 2,
               reclass |-> "closed_paved"]}
        : l \in lines}

\* pd.concat([roads, railways, waterways]).merge(mapping, on="fclass", how="left")
MergeLines(roads, railways, waterways, landuse_mapping) ==
    LET lines == roads.feats \cup railways.feats \cup waterways.feats
    IN UNION {
        IF \E r \in landuse_mapping.rows : r.fclass = l.fclass
        THEN {[pos |-> l.pos, fclass |-> l.fclass, width_t |-> r.width_t,
               reclass |-> r.reclass] :
                 r \in {q \in landuse_mapping.rows : q.fclass = l.fclass}}
        ELSE {[pos |-> l.pos, fclass |-> l.fclass, width_t |-> 0,
               reclass |-> "NaN"]}
        : l \in lines}

LinestringBufferRoofs(input_ds, reclass) ==
    LET sel == {l \in input_ds : l.reclass = reclass
                  \/ (reclass = "closed_paved" /\ l.reclass = "paved_roof")}
    IN {Feature(reclass, LineBuffer(l.pos, l.width_t \div 2)) : l \in sel}

\* _linestring_buffer(input_ds, reclass)
LinestringBuffer(input_ds, reclass) ==
    LET sel == {l \in input_ds : l.reclass = reclass}
    IN {Feature(reclass, LineBuffer(l.pos, l.width_t \div 2)) : l \in sel}

CombineLayersNoCut(ds_base, ds_add) ==
    IF ds_add = {} THEN ds_base ELSE Explode(ds_base \cup ds_add)

CombineLayersEmptyAdd(ds_base, ds_add) ==
    IF ds_add = {}
    THEN ds_add
    ELSE Explode(OverlayDifference(ds_base, ds_add) \cup ds_add)

\* _combine_layers(ds_base, ds_add)
CombineLayers(ds_base, ds_add) ==
    IF ds_add = {}
    THEN ds_base
    ELSE Explode(OverlayDifference(ds_base, ds_add) \cup ds_add)

LayerKeysSwapped == <<"da_water", "da_closed_paved", "da_open_paved", "da_paved_roof">>

\* The order in which the layers are laid over da_unpaved.
LayerKeys == <<"da_water", "da_open_paved", "da_closed_paved", "da_paved_roof">>

RECURSIVE CombineAll(_, _, _)
CombineAll(lu_map, layers, keys) ==
    IF keys = <<>>
    THEN lu_map
    ELSE CombineAll(CombineLayers(lu_map, layers[Head(keys)]), layers, Tail(keys))

OsmRaised(e) ==
    [raised |-> e, da_unpaved |-> {}, da_water |-> {}, da_open_paved |-> {},
     da_closed_paved |-> {}, da_paved_roof |-> {}, landuse_map |-> {}]

\* landuse_from_osm(region, roads, railways, waterways, buildings_area,
\*                  water_area, landuse_mapping)
\* region is the union of the region's polygons; buildings_area and water_area
\* are sets of polygons.
LanduseFromOsm(region, roads, railways, waterways, buildings_area, water_area, landuse_mapping) ==
    LET region_gdf == {Feature("", p) : p \in Parts(region)}
        da_unpaved == {Feature("unpaved", f.geometry) : f \in region_gdf}
        lines == MergeLines(roads, railways, waterways, landuse_mapping)
        clip(df) == IF df = {} THEN df ELSE OverlayIntersection(df, region_gdf)
        da_closed_paved == clip(LinestringBuffer(lines, "closed_paved"))
        da_open_paved == clip(LinestringBuffer(lines, "open_paved"))
        da_water_lines == clip(LinestringBuffer(lines, "water"))
        da_paved_roof ==
            IF buildings_area # {}
            THEN OverlayIntersection(
                     Explode({Feature("paved_roof", g) : g \in buildings_area}),
                     region_gdf)
            ELSE {}
        da_water_area ==
            IF water_area # {}
            THEN OverlayIntersection(
                     Explode({Feature("water", g) : g \in water_area}),
                     region_gdf)
            ELSE {}
        da_water == da_water_area \cup da_water_lines
        layers == [key \in {"da_water", "da_open_paved", "da_closed_paved",
                            "da_paved_roof"} |->
                     CASE key = "da_water" -> da_water
                       [] key = "da_open_paved" -> da_open_paved
                       [] key = "da_closed_paved" -> da_closed_paved
                       [] key = "da_paved_roof" -> da_paved_roof]
        lu_map == Dissolve(Explode(CombineAll(da_unpaved, layers, LayerKeys)))
    IN IF ~(roads.has_fclass \/ railways.has_fclass \/ waterways.has_fclass)
          \/ "fclass" \notin landuse_mapping.cols
       THEN OsmRaised("KeyError")     \* merge(on="fclass"): no such column
       ELSE IF "reclass" \notin landuse_mapping.cols
       THEN OsmRaised("KeyError")     \* input_ds["reclass"]
       ELSE IF "width_t" \notin landuse_mapping.cols
               /\ \E l \in lines : l.reclass \in {"closed_paved", "open_paved", "water"}
       THEN OsmRaised("KeyError")     \* sel["width_t"]
       ELSE [raised |-> "none", da_unpaved |-> da_unpaved, da_water |-> da_water,
             da_open_paved |-> da_open_paved,
             da_closed_paved |-> da_closed_paved,
             da_paved_roof |-> da_paved_roof, landuse_map |-> lu_map]


\* ------------------------------------------------------------ arithmetic
\* Exact rationals [n, d] with d > 0, kept in lowest terms.
RECURSIVE GCD(_, _)
GCD(a, b) == IF b = 0 THEN a ELSE GCD(b, a % b)

Rat(n, d) == LET g == GCD(n, d) IN [n |-> n \div g, d |-> d \div g]
RatAdd(x, y) == Rat(x.n * y.d + y.n * x.d, x.d * y.d)
RatMul(x, y) ==
    LET g1 == GCD(x.n, y.d)
        g2 == GCD(y.n, x.d)
    IN Rat((x.n \div g1) * (y.n \div g2), (x.d \div g2) * (y.d \div g1))
RatDiv(x, y) == RatMul(x, [n |-> y.d, d |-> y.n])
RatLess(x, y) == x.n * y.d < y.n * x.d

\* numpy rounding (half to even) of p / q to a whole number, p >= 0, q > 0.
RoundDiv(p, q) ==
    LET f == p \div q
        r == p % q
    IN IF 2 * r < q THEN f
       ELSE IF 2 * r > q THEN f + 1
       ELSE IF f % 2 = 0 THEN f ELSE f + 1

\* x.round(0) as a whole number, x.round(3) in thousandths.
Round0(x) == RoundDiv(x.n, x.d)
Round3(x) == RoundDiv(1000 * x.n, x.d)

\* A float that may be NaN or +inf; finite values are thousandths.
Num(v) == [k |-> "num", v |-> v]
NaN == [k |-> "nan", v |-> 0]
Inf == [k |-> "inf", v |-> 0]

\* (area / total).round(3): IEEE division, so 0/0 is NaN and x/0 is inf.
FracOf(area, total) ==
    IF total.n = 0
    THEN (IF area.n = 0 THEN NaN ELSE Inf)
    ELSE Num(Round3(RatDiv(area, total)))

\* ---------------------------------------------------------- landuse_table
\* The land-use map as landuse_table reads it: a sequence of records
\* [reclass, area], area a rational (geometry.area of a polygonal record).
MapRec(k, a) == [reclass |-> k, area |-> a]

RECURSIVE SumArea(_)
SumArea(rows) ==
    IF rows = <<>> THEN Rat(0, 1) ELSE RatAdd(Head(rows).area, SumArea(Tail(rows)))

IsWater(r) == r.reclass = "water"

ShortCodeKeepWater(k) ==
    CASE k = "open_paved" -> "op"
      [] k = "unpaved" -> "up"
      [] k = "paved_roof" -> "pr"
      [] k = "closed_paved" -> "cp"
      [] OTHER -> k

\* The renaming of the classes to the codes of the model (lines 179-187).
ShortCode(k) ==
    CASE k = "open_paved" -> "op"
      [] k = "water" -> "ow"
      [] k = "unpaved" -> "up"
      [] k = "paved_roof" -> "pr"
      [] k = "closed_paved" -> "cp"
      [] OTHER -> k

\* Series.sum() of a frac column: NaN is skipped, inf absorbs.
RECURSIVE SumFrac(_)
SumFrac(rows) ==
    IF rows = <<>> THEN Num(0)
    ELSE LET h == Head(rows).frac
             t == SumFrac(Tail(rows))
         IN IF h.k = "inf" \/ t.k = "inf" THEN Inf
            ELSE IF h.k = "nan" THEN t
            ELSE Num(h.v + t.v)

WaterShare == Rat(1, 100)
FloorRescale == Rat(99, 100)

FloorTotalNoRescale(total) == total

\* area_tot_new: the total the fractions refer to once water has its floor.
FloorTotal(total) == RatDiv(total, FloorRescale)

\* The rows with their frac column, before the tot_area row is added.
TableRows(lu_table, tot_area) ==
    LET water == SelectSeq(lu_table, IsWater)
        total == Rat(tot_area, 1)
    IN IF water = <<>> \/ RatLess(SumArea(water), RatMul(WaterShare, total))
       THEN LET with_water ==
                    IF water = <<>>
                    THEN Append(lu_table, MapRec("water", Rat(0, 1)))
                    ELSE lu_table
                area_tot_new == FloorTotal(total)
                added == RatMul(area_tot_new, WaterShare)
                floored == [i \in 1 .. Len(with_water) |->
                              IF IsWater(with_water[i])
                              THEN MapRec("water", RatAdd(with_water[i].area, added))
                              ELSE with_water[i]]
            IN [i \in 1 .. Len(floored) |->
                  [reclass |-> floored[i].reclass, area |-> floored[i].area,
                   frac |-> FracOf(floored[i].area, area_tot_new)]]
       ELSE [i \in 1 .. Len(lu_table) |->
               [reclass |-> lu_table[i].reclass, area |-> lu_table[i].area,
                frac |-> FracOf(lu_table[i].area, total)]]

\* landuse_table(lu_map): the set of rows [reclass, area, frac] of the returned
\* table, reclass a short code, area in thousandths, frac a float in thousandths.
LanduseTable(lu_map) ==
    LET tot_area == Round0(SumArea(lu_map))
        rows == Append(TableRows(lu_map, tot_area),
                       [reclass |-> "tot_area", area |-> Rat(tot_area, 1),
                        frac |-> Num(1000)])
        renamed == [i \in 1 .. Len(rows) |->
                      [reclass |-> ShortCode(rows[i].reclass),
                       area |-> rows[i].area, frac |-> rows[i].frac]]
        group(c) == SelectSeq(renamed, LAMBDA r : r.reclass = c)
    IN {[reclass |-> c, area |-> Round3(SumArea(group(c))),
         frac |-> SumFrac(group(c))] :
           c \in {renamed[i].reclass : i \in 1 .. Len(renamed)}}


\* ------------------------------------------------- inputs of the workflows
LineFeats == [fclass : FClasses, pos : Positions]
Intervals == {lo .. hi : lo \in Universe, hi \in Universe} \ {{}}
Regions == (SUBSET Universe) \ {{}}

LineLayersUpTo(k) ==
    {LineLayer(TRUE, F) : F \in {G \in SUBSET LineFeats : Cardinality(G) <= k}}
    \cup {LineLayer(FALSE, {})}

PolyLayersUpTo(k) == {G \in SUBSET Intervals : Cardinality(G) <= k}

AllColumns == {"fclass", "width_t", "reclass"}

\* Validated mapping tables: both feature classes mapped to buffered classes,
\* lines mapped to water and to a class that is never buffered, a wide buffer
\* with an unmapped feature class, and a zero width.
OsmTables ==
    {MappingTable(AllColumns, "int64", R) : R \in {
        {MapRow("road", 2, "closed_paved"), MapRow("track", 2, "open_paved")},
        {MapRow("road", 2, "water"), MapRow("track", 2, "unpaved")},
        {MapRow("road", 4, "open_paved")},
        {MapRow("road", 2, "paved_roof"), MapRow("track", 0, "closed_paved")}}}

OsmArgs(region, roads, railways, waterways, buildings_area, water_area, landuse_mapping) ==
    [region |-> region, roads |-> roads, railways |-> railways,
     waterways |-> waterways, buildings_area |-> buildings_area,
     water_area |-> water_area, landuse_mapping |-> landuse_mapping]

TblIdle == [state |-> "idle", rows |-> {}]
TblPending == [state |-> "pending", rows |-> {}]
TblReturned(rows) == [state |-> "returned", rows |-> rows]

\* The records of a map in the order dissolve leaves them (sorted by class),
\* with geometry.area: one area unit per cell.
DissolveOrder == <<"closed_paved", "open_paved", "paved_roof", "unpaved", "water">>

RECURSIVE MapRecords(_, _)
MapRecords(lu_map, keys) ==
    IF keys = <<>> THEN <<>>
    ELSE LET here == {f \in lu_map : f.reclass = Head(keys)}
         IN (IF here = {} THEN <<>>
             ELSE <<MapRec(Head(keys), Rat(Cardinality(Cover(here)), 1))>>)
            \o MapRecords(lu_map, Tail(keys))

\* Land-use maps given to landuse_table directly: up to MaxRecs records
\* (class, area), in a fixed order, since the table does not depend on the order.
RecTypes == ValidReclass \X AreaVals
RecRank(t) ==
    (CHOOSE i \in 1 .. Len(DissolveOrder) : DissolveOrder[i] = t[1]) * (2500 * AreaDen)
    + t[2]
RecOrder == [t \in RecTypes |-> RecRank(t)]

LuMapsOfLen[n \in 0 .. MaxRecs + 1] ==
    IF n = 0 THEN {<<>>}
    ELSE {Append(p[1], p[2]) :
            p \in {q \in LuMapsOfLen[n - 1] \X RecTypes :
                     q[1] = <<>> \/ RecOrder[q[1][Len(q[1])]] <= RecOrder[q[2]]}}

LuMapOf(types) ==
    [i \in 1 .. Len(types) |-> MapRec(types[i][1], Rat(types[i][2], AreaDen))]

\* ------------------------------------------- the arguments as objects
\* landuse_from_osm and landuse_table receive references to the caller's
\* frames.  A frame object is [cols, clean, empty]: its columns, whether its
\* geometries are already what buffer(0) returns, and whether it has no rows.
ArgNames ==
    {"region", "roads", "railways", "waterways", "buildings_area", "water_area",
     "landuse_mapping", "lu_map"}
GeometryArgs == ArgNames \ {"landuse_mapping"}
OsmParams == ArgNames \ {"lu_map"}
TableParams == {"lu_map"}

Frame(cols, clean, empty) == [cols |-> cols, clean |-> clean, empty |-> empty]

ArgColumns(a) ==
    CASE a = "landuse_mapping" -> AllColumns
      [] a \in {"roads", "railways", "waterways"} -> {"geometry", "fclass"}
      [] a = "lu_map" -> {"reclass", "geometry"}
      [] OTHER -> {"geometry"}

\* Any object created during a call; the caller holds no reference to it.
Fresh == "fresh"

LocalNames ==
    ArgNames \cup
    {"region_gdf", "da_unpaved", "lines", "input_ds", "sel", "da_closed_paved",
     "da_open_paved", "da_water_lines", "layer", "buildings", "da_paved_roof",
     "water", "da_water_area", "da_water", "ds_base", "ds_add", "base_cut", "out",
     "lu_table"}

\* The bindings at the start of a call: each parameter names its argument.
Env(params) == [v \in LocalNames |-> IF v \in params THEN v ELSE Fresh]

\* Statements that bind a name or write into an object.
Stmt(op, var, src, col, body, orelse) ==
    [op |-> op, var |-> var, src |-> src, col |-> col, body |-> body,
     orelse |-> orelse]
\* var = src.copy()
Copy(var, src) == Stmt("copy", var, src, "", <<>>, <<>>)
\* var = an expression that builds a new frame (explode, overlay, concat,
\* merge, assign, a boolean-mask selection, a constructor)
New(var) == Stmt("new", var, "", "", <<>>, <<>>)
\* var = src
Alias(var, src) == Stmt("alias", var, src, "", <<>>, <<>>)
\* var[col] = ...
SetColumn(var, col) == Stmt("set", var, "", col, <<>>, <<>>)
\* if not src.empty: body else: orelse
IfNotEmpty(src, body, orelse) == Stmt("if", "", src, "", body, orelse)

CopyAliased(env, src) == env[src]

\* The object DataFrame.copy() returns: a new one.
CopyOf(env, src) == Fresh

\* An in-place column assignment on a frame; every assignment to an
\* argument's geometry column writes buffer(0) of it.
WriteColumn(frame, col) ==
    [frame EXCEPT !.cols = @ \cup {col},
                  !.clean = IF col = "geometry" THEN TRUE ELSE @]

\* Whether the object a name is bound to has no rows (a new object is taken
\* to have rows: what is written into it is invisible to the caller).
IsEmpty(st, src) ==
    IF st.env[src] = Fresh THEN FALSE ELSE st.heap[st.env[src]].empty

\* The statements run in order: a list of several is its first half
\* followed by its second half, run on the state the first half leaves.
RECURSIVE Exec(_, _)
Exec(st, stmts) ==
    IF stmts = <<>>
    THEN st
    ELSE IF Len(stmts) = 1
    THEN LET s == stmts[1]
         IN CASE s.op = "copy" ->
                    [st EXCEPT !.env[s.var] = CopyOf(st.env, s.src)]
              [] s.op = "new" -> [st EXCEPT !.env[s.var] = Fresh]
              [] s.op = "alias" -> [st EXCEPT !.env[s.var] = st.env[s.src]]
              [] s.op = "set" ->
                    IF st.env[s.var] = Fresh
                    THEN st
                    ELSE [st EXCEPT !.heap[st.env[s.var]] = WriteColumn(@, s.col)]
              [] s.op = "if" ->
                    IF IsEmpty(st, s.src)
                    THEN Exec(st, s.orelse)
                    ELSE Exec(st, s.body)
    ELSE LET half == Len(stmts) \div 2
         IN CHOOSE after \in
                {Exec(mid, SubSeq(stmts, half + 1, Len(stmts))) :
                    mid \in {Exec(st, SubSeq(stmts, 1, half))}} : TRUE

\* _linestring_buffer(input_ds, reclass), its result bound to `result`.
LinestringBufferBody(result) ==
    <<Alias("input_ds", "lines"),
      New("sel"),                               \* input_ds.loc[...]
      Copy("sel", "sel"),                       \* .copy()
      IfNotEmpty("sel",
                 <<SetColumn("sel", "geometry"), SetColumn("sel", "reclass"),
                   New(result)>>,
                 <<New(result)>>)>>

\* _combine_layers(ds_base, ds_add) called as lu_map = _combine_layers(lu_map, add).
CombineLayersBody(add) ==
    <<Alias("ds_base", "lu_map"), Alias("ds_add", add),
      IfNotEmpty("ds_add",
                 <<Copy("ds_base", "ds_base"), Copy("ds_add", "ds_add"),
                   SetColumn("ds_base", "geometry"), SetColumn("ds_add", "geometry"),
                   New("base_cut"), New("out"), New("out"),
                   Alias("lu_map", "out")>>,
                 <<Alias("lu_map", "ds_base")>>)>>

\* The loop that cleans a buffered layer (lines 67-70).
CleanLayerBody(layer) ==
    <<Alias("layer", layer),
      IfNotEmpty("layer", <<SetColumn("layer", "geometry"), New("layer")>>, <<>>)>>

\* The bindings and in-place writes of landuse_from_osm, in source order.
LanduseFromOsmBody ==
    <<Copy("region", "region"),                 \* 46
      SetColumn("region", "geometry"),          \* 47
      New("region"),                            \* 48
      New("region_gdf"), New("region_gdf"),     \* 50-51
      New("da_unpaved"),                        \* 55
      New("lines"), New("lines")>>              \* 58-59
    \o LinestringBufferBody("da_closed_paved")  \* 62
    \o LinestringBufferBody("da_open_paved")    \* 63
    \o LinestringBufferBody("da_water_lines")   \* 64
    \o CleanLayerBody("da_closed_paved")        \* 67-70
    \o CleanLayerBody("da_open_paved")
    \o CleanLayerBody("da_water_lines")
    \o <<IfNotEmpty("da_closed_paved", <<New("da_closed_paved")>>, <<>>),  \* 73-76
         IfNotEmpty("da_open_paved", <<New("da_open_paved")>>, <<>>),      \* 77-80
         IfNotEmpty("da_water_lines", <<New("da_water_lines")>>, <<>>),    \* 81-84
         IfNotEmpty("buildings_area",                                      \* 87-97
                    <<Copy("buildings", "buildings_area"),
                      SetColumn("buildings", "geometry"),
                      New("buildings"), New("da_paved_roof")>>,
                    <<New("da_paved_roof")>>),
         IfNotEmpty("water_area",                                          \* 100-110
                    <<Copy("water", "water_area"),
                      SetColumn("water", "geometry"),
                      New("water"), New("da_water_area")>>,
                    <<New("da_water_area")>>),
         New("da_water"),                                                  \* 113
         Alias("lu_map", "da_unpaved")>>                                   \* 124
    \o CombineLayersBody("da_water")                                       \* 125-126
    \o CombineLayersBody("da_open_paved")
    \o CombineLayersBody("da_closed_paved")
    \o CombineLayersBody("da_paved_roof")
    \o <<SetColumn("lu_map", "geometry"),       \* 129
         New("lu_map"), New("lu_map")>>         \* 130-131

\* The bindings and in-place writes of landuse_table, in source order.
LanduseTableBody ==
    <<New("lu_map"),                            \* 150: lu_map[mask]
      Copy("lu_map", "lu_map"),                 \* 150: .copy()
      SetColumn("lu_map", "area"),              \* 153
      New("lu_table"), Copy("lu_table", "lu_table"),   \* 154
      New("water"),                             \* 158
      SetColumn("lu_table", "frac"),            \* 162-167
      New("lu_table"),                          \* 170-176
      SetColumn("lu_table", "reclass"),         \* 179
      New("lu_table")>>                         \* 190-192

\* The caller's objects after a call with the given parameters and body.
HeapAfter(heap, params, body) ==
    Exec([heap |-> heap, env |-> Env(params)], body).heap

NoFrames ==
    [heap |-> [a \in ArgNames |-> Frame(ArgColumns(a), TRUE, FALSE)], called |-> {}]

NoOsmArgs ==
    OsmArgs({}, LineLayer(FALSE, {}), LineLayer(FALSE, {}), LineLayer(FALSE, {}),
            {}, {}, MappingTable(AllColumns, "int64", {}))

NoForcing == <<>>
NoFiles == {}
NoReader == [done |-> FALSE, forcing |-> {}, parser |-> "none"]
NoCreate == [data |-> <<>>, out |-> <<>>]

\* ------------------------------------------------------------ the UWBM model
Absent == -1
TableCodes == {"op", "ow", "up", "pr", "cp"}
AreaKey(code) == "tot_" \o code \o "_area"
FracKey(code) == code \o "_frac"
ConfigKeys ==
    {"starttime", "endtime", "timestepsecs", "name", "soiltype", "croptype", "tot_area",
     "parameters"}
    \cup {AreaKey(code) : code \in TableCodes} \cup {FracKey(code) : code \in TableCodes}
LayerNames == <<"osm_roads", "osm_railways", "osm_waterways", "osm_buildings", "osm_water">>
LineLayerNames == {"osm_roads", "osm_railways", "osm_waterways"}

NoGeom(v) == [set |-> FALSE, v |-> v]
Geom(v) == [set |-> TRUE, v |-> v]

\* The region geometry carries its coordinate reference system.
NoRegion == [set |-> FALSE, v |-> {}, crs |-> "none"]
RegionGeom(v, crs) == [set |-> TRUE, v |-> v, crs |-> crs]

NoGeoms ==
    [region |-> NoRegion, osm_roads |-> NoGeom(LineLayer(FALSE, {})),
     osm_railways |-> NoGeom(LineLayer(FALSE, {})),
     osm_waterways |-> NoGeom(LineLayer(FALSE, {})),
     osm_buildings |-> NoGeom({}), osm_water |-> NoGeom({}),
     landuse_map |-> NoGeom({})]

NoTables == [landuse_table |-> [set |-> FALSE, rows |-> {}]]

\* The state of a model after construction: no geoms, no tables, empty config.
InitModel ==
    /\ catalog = [avail |-> {}, nodata_raises |-> TRUE]
    /\ geoms = NoGeoms
    /\ tables = NoTables
    /\ config = [k \in ConfigKeys |-> Absent]
    /\ last = [op |-> "init"]
    /\ err = "none"
    /\ calls = {}
    /\ forcing = NoForcing
    /\ files = NoFiles
    /\ reader = NoReader
    /\ create = NoCreate

\* The mapping tables of the data catalog, by name.
DefaultRows ==
    {MapRow("road", 2, "closed_paved"), MapRow("track", 2, "open_paved"),
     MapRow("stream", 2, "water")}
TableNames ==
    {"osm_mapping_default", "osm_mapping", "no_fclass", "no_width_t", "no_reclass",
     "invalid_class", "width_object", "width_float32"}
CatalogTable(name) ==
    CASE name = "osm_mapping_default" -> MappingTable(AllColumns, "int64", DefaultRows)
      [] name = "osm_mapping" -> MappingTable(AllColumns, "float64", DefaultRows)
      [] name = "no_fclass" ->
            MappingTable({"width_t", "reclass"}, "int64", DefaultRows)
      [] name = "no_width_t" ->
            MappingTable({"fclass", "reclass"}, "int64", DefaultRows)
      [] name = "no_reclass" ->
            MappingTable({"fclass", "width_t"}, "int64", DefaultRows)
      [] name = "invalid_class" ->
            MappingTable(AllColumns, "int64",
                         DefaultRows \cup {MapRow("path", 2, "invalid_class")})
      [] name = "width_object" -> MappingTable(AllColumns, "object", DefaultRows)
      [] name = "width_float32" -> MappingTable(AllColumns, "float32", DefaultRows)

\* The source layers of the data catalog, by name.
CatalogLayer(name) ==
    CASE name = "osm_roads" ->
            {[fclass |-> "road", pos |-> 1], [fclass |-> "track", pos |-> NCells]}
      [] name = "osm_railways" -> {[fclass |-> "rail", pos |-> 1]}
      [] name = "osm_waterways" -> {[fclass |-> "stream", pos |-> 0]}
      [] name = "osm_buildings" -> {{0}}
      [] name = "osm_water" -> {{NCells - 1}}

\* Whether a feature of a source layer meets the region (all do when the
\* model has no region yet).
MeetsRegion(name, f, region) ==
    \/ ~region.set
    \/ IF name \in LineLayerNames
       THEN {f.pos - 1, f.pos} \cap region.v # {}
       ELSE f \cap region.v # {}

\* One pass of the loop over the source layers: what is stored under `name`.
\* A layer the catalog cannot serve, or (when nodata_raises) one without a
\* feature in the region, is replaced by an empty frame with a geometry
\* column alone.
FetchLayer(avail, name, region, nodata_raises) ==
    LET found == {f \in CatalogLayer(name) : MeetsRegion(name, f, region)}
        failed == name \notin avail \/ (found = {} /\ nodata_raises)
    IN IF name \in LineLayerNames
       THEN Geom(LineLayer(~failed, IF failed THEN {} ELSE found))
       ELSE Geom(IF failed THEN {} ELSE found)

ColumnsPresent(table) == RequiredColumns \subseteq table.cols

ReclassUnchecked(table) == TRUE

ReclassValid(table) == \A r \in table.rows : r.reclass \in ValidReclass

WidthDtypes == {"float64", "int", "int64"}
DtypeAccepted(table) == table.dtype \in WidthDtypes

Sources == {"osm"}

Outcome(g, t, c, e, reached) ==
    [geoms |-> g, tables |-> t, config |-> c, err |-> e, calls |-> reached]

\* UWBM.setup_landuse(soiltype, croptype, source, landuse_mapping_fn) on a
\* model (g, t, c); landuse_mapping_fn "None" stands for the default.
SetupLanduseRun(avail, g, t, c, soiltype, croptype, source, landuse_mapping_fn, nodata_raises) ==
    LET fn_map == IF landuse_mapping_fn = "None"
                  THEN "osm_mapping_default" ELSE landuse_mapping_fn
        table == CatalogTable(fn_map)
        fetched == [g EXCEPT
            !.osm_roads = FetchLayer(avail, "osm_roads", g.region, nodata_raises),
            !.osm_railways = FetchLayer(avail, "osm_railways", g.region, nodata_raises),
            !.osm_waterways = FetchLayer(avail, "osm_waterways", g.region, nodata_raises),
            !.osm_buildings = FetchLayer(avail, "osm_buildings", g.region, nodata_raises),
            !.osm_water = FetchLayer(avail, "osm_water", g.region, nodata_raises)]
        lu_map == LanduseFromOsm(fetched.region.v, fetched.osm_roads.v,
                                 fetched.osm_railways.v, fetched.osm_waterways.v,
                                 fetched.osm_buildings.v, fetched.osm_water.v, table)
    IN IF source \notin Sources
       THEN Outcome(g, t, c, "IOError", {})
       ELSE IF fn_map \notin TableNames
       THEN Outcome(g, t, c, "ValueError", {})
       ELSE IF ~ColumnsPresent(table)
       THEN Outcome(g, t, c, "IOError", {"get_dataframe"})
       ELSE IF ~ReclassValid(table)
       THEN Outcome(g, t, c, "IOError", {"get_dataframe"})
       ELSE IF ~DtypeAccepted(table)
       THEN Outcome(g, t, c, "IOError", {"get_dataframe"})
       ELSE IF ~g.region.set
       THEN \* self.region is None: region.copy() fails in landuse_from_osm
            Outcome(fetched, t, c, "AttributeError",
                    {"get_dataframe", "get_geodataframe", "landuse_from_osm"})
       ELSE IF lu_map.raised # "none"
       THEN Outcome(fetched, t, c, lu_map.raised,
                    {"get_dataframe", "get_geodataframe", "landuse_from_osm"})
       ELSE \* set_geoms is handed the dict of layers, not a GeoDataFrame
            Outcome(fetched, t, c, "ValueError",
                    {"get_dataframe", "get_geodataframe", "landuse_from_osm",
                     "set_geoms"})

\* setup_landuse writing soiltype and croptype before it checks anything.
SetupLanduseConfigFirst(avail, g, t, c, soiltype, croptype, source, landuse_mapping_fn, nodata_raises) ==
    LET out == SetupLanduseRun(avail, g, t, c, soiltype, croptype, source,
                               landuse_mapping_fn, nodata_raises)
    IN [out EXCEPT !.config = [@ EXCEPT !["soiltype"] = soiltype,
                                        !["croptype"] = croptype]]

\* UWBM.setup_landuse as a whole.
SetupLanduseCall(avail, g, t, c, soiltype, croptype, source, landuse_mapping_fn, nodata_raises) ==
    SetupLanduseRun(avail, g, t, c, soiltype, croptype, source,
                    landuse_mapping_fn, nodata_raises)

SoilTypes == {1}
CropTypes == {11}
SourceArgs == {"osm", "esa"}
MappingArgs == TableNames \cup {"None", "not_in_catalog"}

SetupLanduse ==
    \E soiltype \in SoilTypes, croptype \in CropTypes, source \in SourceArgs,
       landuse_mapping_fn \in MappingArgs :
        LET out == SetupLanduseCall(catalog.avail, geoms, tables, config, soiltype,
                                    croptype, source, landuse_mapping_fn,
                                    catalog.nodata_raises)
        IN /\ geoms' = out.geoms
           /\ tables' = out.tables
           /\ config' = out.config
           /\ err' = out.err
           /\ calls' = out.calls
           /\ last' = [op |-> "setup_landuse", soiltype |-> soiltype,
                       croptype |-> croptype, source |-> source,
                       landuse_mapping_fn |-> landuse_mapping_fn]
           /\ UNCHANGED <<catalog, osm_vars, io_vars, frames>>

\* UWBM.setup_project(region, name, t_start, t_end, ts, crs)
TimeStepsAny == {3600, 86400, 60}

TimeSteps == {3600, 86400}

\* GeoDataFrame.to_crs(crs): the frame in the requested system.
ToCrs(geom_crs, crs) == crs

\* The system a region argument comes in (a bbox is in EPSG:4326).
SourceCrs == "EPSG:4326"

SetupProjectRun(g, t, c, kind, region, name, t_start, t_end, ts, crs) ==
    IF ts \notin TimeSteps
    THEN Outcome(g, t, c, "ValueError", {})
    ELSE IF kind \notin {"geom", "bbox"}
    THEN Outcome(g, t, c, "IOError", {"parse_region"})
    ELSE Outcome([g EXCEPT !.region = RegionGeom(region, ToCrs(SourceCrs, crs))], t,
                 [c EXCEPT !["starttime"] = t_start, !["endtime"] = t_end,
                           !["timestepsecs"] = ts, !["name"] = name],
                 "none", {"parse_region", "setup_region", "set_geoms"})

RegionKinds == {"geom", "bbox", "basin"}
CrsArgs == {"EPSG:3857", "EPSG:4326"}
ProjectRegions == {Universe, {0}}
TimeStepArgs == {3600, 86400, 60}
ProjectNames == {1}

SetupProject ==
    \E kind \in RegionKinds, region \in ProjectRegions, name \in ProjectNames,
       ts \in TimeStepArgs, crs \in CrsArgs :
        LET out == SetupProjectRun(geoms, tables, config, kind, region, name, 0, 1, ts, crs)
        IN /\ geoms' = out.geoms
           /\ tables' = out.tables
           /\ config' = out.config
           /\ err' = out.err
           /\ calls' = out.calls
           /\ last' = [op |-> "setup_project", kind |-> kind, ts |-> ts, crs |-> crs]
           /\ UNCHANGED <<catalog, osm_vars, io_vars, frames>>

Init ==
    /\ catalog \in [avail : SUBSET {LayerNames[i] : i \in 1 .. Len(LayerNames)},
                   nodata_raises : BOOLEAN]
    /\ geoms = NoGeoms
    /\ tables = NoTables
    /\ config = [k \in ConfigKeys |-> Absent]
    /\ last = [op |-> "init"]
    /\ err = "none"
    /\ calls = {}
    /\ forcing = NoForcing
    /\ files = NoFiles
    /\ reader = NoReader
    /\ create = NoCreate
    /\ osm_in = OsmArgs({}, LineLayer(FALSE, {}), LineLayer(FALSE, {}),
                        LineLayer(FALSE, {}), {}, {},
                        MappingTable(AllColumns, "int64", {}))
    /\ osm_out = OsmRaised("pending")
    /\ tbl_in = <<>>
    /\ tbl_out = TblIdle
    /\ frames = NoFrames

Next == SetupProject \/ SetupLanduse

Spec == Init /\ [][Next]_vars

\* ------------------------------------------------- the model's files
\* Config entry "parameters" stands for the entries no setup method writes:
\* title, area_type and the physical parameters of the schema.
\* The fields UWMBConfig declares without a default.
RequiredConfigKeys ==
    {"parameters", "soiltype", "croptype", "tot_area"}
    \cup {AreaKey(code) : code \in TableCodes} \cup {FracKey(code) : code \in TableCodes}

\* UWMBConfig.create(config) returns a config: every required field is there
\* and timestepsecs, when given, is 3600 or 86400.
ConfigValid(c) ==
    /\ \A k \in RequiredConfigKeys : c[k] # Absent
    /\ c["timestepsecs"] \in {Absent, 3600, 86400}

NoConfig == [k \in ConfigKeys |-> Absent]

\* A file: its path under the model root and what it holds, a config or a
\* table of rows under named columns.
Path(dir, stem, name, years, h) ==
    [dir |-> dir, stem |-> stem, name |-> name, years |-> years, h |-> h]
File(path, cfg, cols, rows) == [path |-> path, config |-> cfg, cols |-> cols, rows |-> rows]
WriteFile(fs, file) == {f \in fs : f.path # file.path} \cup {file}

\* glob("output/forcing/*.csv")
ForcingFiles(fs) == {f \in fs : f.path.dir = "output/forcing"}

\* input/config/ep_neighbourhood_<name>.ini, or input/config/<config_fn>
ModelConfigPath(name, config_fn) ==
    IF config_fn = "None"
    THEN Path("input/config", "ep_neighbourhood", name, Absent, Absent)
    ELSE Path("input/config", config_fn, Absent, Absent, Absent)

HasNameAlways(c) == TRUE

\* "name" in self.config
HasName(c) == c["name"] # Absent

IoOutcome(fs, e, reached) == [files |-> fs, err |-> e, calls |-> reached]

\* UWBM.write_model_config(config_fn)
WriteModelConfigRun(c, fs, config_fn) ==
    IF config_fn = "None" /\ ~HasName(c)
    THEN IoOutcome(fs, "ValueError", {})
    ELSE IF ~ConfigValid(c)
    THEN IoOutcome(fs, "ValueError", {"create"})
    ELSE IoOutcome(WriteFile(fs, File(ModelConfigPath(c["name"], config_fn), c, <<>>, <<>>)),
                   "none", {"create", "open", "to_ini"})

ConfigFnArgs == {"None", "custom.ini"}

WriteModelConfig ==
    \E config_fn \in ConfigFnArgs :
        LET out == WriteModelConfigRun(config, files, config_fn)
        IN /\ files' = out.files
           /\ err' = out.err
           /\ calls' = out.calls
           /\ last' = [op |-> "write_model_config", config_fn |-> config_fn]
           /\ UNCHANGED <<catalog, geoms, tables, config, forcing, reader, create,
                          osm_vars, frames>>

\* The config a model starts from in write mode: the entries of the template
\* neighbourhood_params.ini, which may or may not hold every required field.
Templates == {{}, {"parameters"}, RequiredConfigKeys}
TemplateConfig(keys) == [k \in ConfigKeys |-> IF k \in keys THEN 1 ELSE Absent]

\* setup_project with a geom region and drawn dates: days counted from
\* 1 January, the end MaxSpan days after the start at most.  A model is set
\* up for one project: the call is repeated until it has completed.
MaxSpan == 2
StartDays == {0, 11}
IoNames == {2}

SetupProjectDates ==
    \E name \in IoNames, t_start \in StartDays, span \in 0 .. MaxSpan,
       ts \in TimeStepArgs :
        LET out == SetupProjectRun(geoms, tables, config, "geom", Universe, name,
                                   t_start, t_start + span, ts, "EPSG:3857")
        IN /\ ~geoms.region.set
           /\ geoms' = out.geoms
           /\ tables' = out.tables
           /\ config' = out.config
           /\ err' = out.err
           /\ calls' = out.calls
           /\ last' = [op |-> "setup_project", kind |-> "geom", ts |-> ts,
                       crs |-> "EPSG:3857"]
           /\ UNCHANGED <<catalog, osm_vars, io_vars, frames>>

\* ------------------------------------------------------------- forcing
\* Times are hours counted from 1 January 00:00, values are counted in
\* units of 0.0001.
\* pd.date_range(start, end, freq=timedelta(seconds=ts))
TimeIndex(start, end, ts) ==
    [i \in 1 .. (((end - start) * 24 * 3600) \div ts) + 1 |->
        start * 24 + ((i - 1) * ts) \div 3600]

\* The series a dataset yields over the time index: one value per step.
Series(base, n) == [i \in 1 .. n |-> base + (i - 1) * 1000]

ForcingEntry(col, vals) == [col |-> col, vals |-> vals]

\* UWBM.forcing is a dict: its entries in insertion order.  Assigning to a
\* name it holds replaces the entry where it stands, a new name goes last.
SetEntry(fo, e) ==
    IF \E i \in DOMAIN fo : fo[i].col = e.col
    THEN [i \in DOMAIN fo |-> IF fo[i].col = e.col THEN e ELSE fo[i]]
    ELSE Append(fo, e)

\* Model.set_forcing: a frame is split into one entry per column, set in
\* the order of the frame's columns.
RECURSIVE SetForcing(_, _)
SetForcing(fo, entries) ==
    IF entries = <<>> THEN fo
    ELSE SetForcing(SetEntry(fo, Head(entries)), Tail(entries))

\* The entries a model in read mode holds, up to their order.
SetRead(fo, entries) ==
    {e \in fo : \A n \in entries : n.col # e.col} \cup entries

ForcingColumns(fo) == {fo[i].col : i \in DOMAIN fo}
ForcingVals(fo, col) == fo[CHOOSE i \in DOMAIN fo : fo[i].col = col].vals

\* The columns of pd.DataFrame(data=self.forcing, index=time_index): the
\* entries in the order of the dict.
FrameColumns(fo) == [i \in DOMAIN fo |-> fo[i].col]

\* _FORCING_COLUMN_ORDER
ForcingColumnOrder == <<"P_atm", "Ref.grass", "E_pot_OW">>

ColumnSelectionKept(cols) == cols

\* df.loc[:, self._FORCING_COLUMN_ORDER]
ColumnSelection(cols) == ForcingColumnOrder


PrecipArgs == {"None", "era5", "missing"}
PetArgs == {"None", "era5"}
PetMethods == {"debruin", "makkink", "other"}
PrecipBase(precip_fn) == 1234
PetBase(pet_method) == IF pet_method = "debruin" THEN 5000 ELSE 25000

\* pet_df["E_pot_OW"] * 0.8982
RefGrass(vals) == [i \in DOMAIN vals |-> (vals[i] * 8982) \div 10000]

\* What a setup_*_forcing call raises when the config has no dates yet.
NoDatesErrors == {"ValueError", "TypeError"}

SteppedIndex(c) == TimeIndex(c["starttime"], c["endtime"], c["timestepsecs"])

\* UWBM.setup_precip_forcing(precip_fn)
SetupPrecipForcing ==
    \E precip_fn \in PrecipArgs, e \in NoDatesErrors :
        /\ IF precip_fn = "None"
           THEN forcing' = forcing /\ err' = "none" /\ calls' = {}
           ELSE IF ~HasName(config)
           THEN forcing' = forcing /\ err' = e /\ calls' = {"get_config"}
           ELSE IF precip_fn = "missing"
           THEN /\ forcing' = forcing
                /\ err' = "FileNotFoundError"
                /\ calls' = {"get_config", "get_rasterdataset"}
           ELSE /\ forcing' = SetForcing(forcing,
                      <<ForcingEntry("P_atm",
                          Series(PrecipBase(precip_fn), Len(SteppedIndex(config))))>>)
                /\ err' = "none"
                /\ calls' = {"get_config", "get_rasterdataset", "set_forcing"}
        /\ last' = [op |-> "setup_precip_forcing", fn |-> precip_fn]
        /\ UNCHANGED <<catalog, geoms, tables, config, files, reader, create,
                       osm_vars, frames>>

\* UWBM.setup_pet_forcing(temp_pet_fn, pet_method)
SetupPetForcing ==
    \E temp_pet_fn \in PetArgs, pet_method \in PetMethods, e \in NoDatesErrors :
        /\ IF temp_pet_fn = "None"
           THEN forcing' = forcing /\ err' = "none" /\ calls' = {}
           ELSE IF ~HasName(config)
           THEN forcing' = forcing /\ err' = e /\ calls' = {"get_config"}
           ELSE IF pet_method \notin {"debruin", "makkink"}
           THEN forcing' = forcing /\ err' = "ValueError" /\ calls' = {"get_config"}
           ELSE LET pet == Series(PetBase(pet_method), Len(SteppedIndex(config)))
                IN /\ forcing' = SetForcing(forcing,
                         <<ForcingEntry("E_pot_OW", pet),
                           ForcingEntry("Ref.grass", RefGrass(pet))>>)
                   /\ err' = "none"
                   /\ calls' = {"get_config", "get_rasterdataset", "set_forcing"}
        /\ last' = [op |-> "setup_pet_forcing", fn |-> temp_pet_fn]
        /\ UNCHANGED <<catalog, geoms, tables, config, files, reader, create,
                       osm_vars, frames>>

\* The calendar: the lengths of the months, the (day, month) of a day
\* counted from 1 January and back.
MonthLen == <<31, 29, 31, 30, 31, 30, 31, 31, 30, 31, 30, 31>>

RECURSIVE DateFrom(_, _)
DateFrom(day, month) ==
    IF day < MonthLen[month] THEN [d |-> day + 1, m |-> month]
    ELSE DateFrom(day - MonthLen[month], month + 1)

RECURSIVE DaysBefore(_)
DaysBefore(month) == IF month = 1 THEN 0 ELSE DaysBefore(month - 1) + MonthLen[month - 1]

IsDate(d, m) == m \in 1 .. 12 /\ d \in 1 .. MonthLen[m]

\* strftime("%d-%m-%Y %H:%M"): the text holds day, month and hour in that order
FormatDate(t) ==
    LET date == DateFrom(t \div 24, 1)
    IN [f1 |-> date.d, f2 |-> date.m, hh |-> t % 24]

\* The text read with the day first and with the month first; Absent when
\* it is no date that way.
ParseDayFirst(text) ==
    IF IsDate(text.f1, text.f2)
    THEN (DaysBefore(text.f2) + text.f1 - 1) * 24 + text.hh ELSE Absent
ParseMonthFirst(text) ==
    IF IsDate(text.f2, text.f1)
    THEN (DaysBefore(text.f1) + text.f2 - 1) * 24 + text.hh ELSE Absent

\* DataFrame.round(2), half to even
Round2(v) ==
    LET q == v \div 100
        r == v % 100
    IN IF r > 50 \/ (r = 50 /\ q % 2 = 1) THEN (q + 1) * 100 ELSE q * 100

\* all(col in df.columns for col in self._FORCING_COLUMN_ORDER)
RequiredPresent(fo) ==
    \A i \in DOMAIN ForcingColumnOrder : ForcingColumnOrder[i] \in ForcingColumns(fo)

\* output/forcing/Forcing_<name>_<years>y_<h>h.csv
ForcingPath(c) ==
    Path("output/forcing", "Forcing", c["name"],
         ((c["endtime"] - c["starttime"]) * 100) \div 36525, c["timestepsecs"] \div 3600)

\* The table to_csv writes: the formatted date followed by the rounded
\* values of the selected columns.
ForcingRows(c, fo) ==
    LET index == SteppedIndex(c)
        cols == ColumnSelection(FrameColumns(fo))
    IN [i \in DOMAIN index |->
          [date |-> FormatDate(index[i]),
           vals |-> [k \in DOMAIN cols |-> Round2(ForcingVals(fo, cols[k])[i])]]]

MissingColumnsIgnored(fs) == IoOutcome(fs, "none", {"date_range"})

\* raise ValueError("Not all required forcing columns found in data. ...")
MissingColumns(fs) == IoOutcome(fs, "ValueError", {"date_range"})

\* UWBM.write_forcing()
WriteForcingRun(c, fo, fs) ==
    IF fo = <<>> THEN IoOutcome(fs, "none", {})
    ELSE IF ~RequiredPresent(fo)
    THEN MissingColumns(fs)
    ELSE IoOutcome(WriteFile(fs, File(ForcingPath(c), NoConfig,
                                      <<"date">> \o ColumnSelection(FrameColumns(fo)),
                                      ForcingRows(c, fo))),
                   "none", {"date_range", "to_csv"})

WriteForcing ==
    LET out == WriteForcingRun(config, forcing, files)
    IN /\ files' = out.files
       /\ err' = out.err
       /\ calls' = out.calls
       /\ last' = [op |-> "write_forcing"]
       /\ UNCHANGED <<catalog, geoms, tables, config, forcing, reader, create,
                      osm_vars, frames>>

\* How read_csv(parse_dates=["date"]) turns the date column into times, by
\* the pandas the build has: "infer" takes one format from the first row,
\* "each" parses every row on its own, the month first where that is a date.
Parsers == {"infer", "each"}

\* The parsed date column; Absent marks a row left as text.
ReadDates(texts, parser) ==
    IF parser = "each"
    THEN [i \in DOMAIN texts |->
            IF ParseMonthFirst(texts[i]) # Absent THEN ParseMonthFirst(texts[i])
            ELSE ParseDayFirst(texts[i])]
    ELSE IF texts[1].f1 > 12
    THEN [i \in DOMAIN texts |-> ParseDayFirst(texts[i])]
    ELSE IF \A i \in DOMAIN texts : ParseMonthFirst(texts[i]) # Absent
    THEN [i \in DOMAIN texts |-> ParseMonthFirst(texts[i])]
    ELSE [i \in DOMAIN texts |-> Absent]

ReadEntry(col, index, vals) == [col |-> col, index |-> index, vals |-> vals]

\* The entries one csv file gives: df.set_index("date"), then one
\* set_forcing per remaining column.
ReadFile(file, parser) ==
    LET index == ReadDates([i \in DOMAIN file.rows |-> file.rows[i].date], parser)
    IN {ReadEntry(file.cols[k + 1], index, [i \in DOMAIN file.rows |-> file.rows[i].vals[k]]) :
            k \in 1 .. Len(file.cols) - 1}

RECURSIVE ReadFiles(_, _, _)
ReadFiles(fo, order, parser) ==
    IF order = <<>> THEN fo
    ELSE ReadFiles(SetRead(fo, ReadFile(Head(order), parser)), Tail(order), parser)

\* The orders in which glob may yield the files of output/forcing.
GlobOrders(fs) ==
    {order \in [1 .. Cardinality(fs) -> fs] : \A i, j \in DOMAIN order : order[i] = order[j] => i = j}

\* UWBM.read_forcing() of a second model opened on the same root in read mode
ReadForcing ==
    \E parser \in Parsers, order \in GlobOrders(ForcingFiles(files)) :
        /\ reader' = [done |-> TRUE, parser |-> parser,
                      forcing |-> ReadFiles(reader.forcing, order, parser)]
        /\ err' = "none"
        /\ calls' = {"glob"} \cup (IF order = <<>> THEN {} ELSE {"read_csv", "set_forcing"})
        /\ last' = [op |-> "read_forcing"]
        /\ UNCHANGED <<catalog, geoms, tables, config, forcing, files, create,
                       osm_vars, frames>>

\* ---------------------------------------------------------------- write
\* output/config/neighbourhood_params.ini
ConfigPath == Path("output/config", "neighbourhood_params", Absent, Absent, Absent)

\* UWBM.write_config(): the config is validated by _configwrite and written
\* under output/config.
WriteConfigRun(c, fs) ==
    IF ~ConfigValid(c)
    THEN IoOutcome(fs, "ValueError", {"create"})
    ELSE IoOutcome(WriteFile(fs, File(ConfigPath, c, <<>>, <<>>)),
                   "none", {"create", "open", "to_ini"})

\* output/landuse/<name>.csv and output/landuse/<name>.geojson
LandusePath(name, ext) == Path("output/landuse", name \o "." \o ext, Absent, Absent, Absent)

RECURSIVE WriteAll(_, _, _, _)
WriteAll(fs, holder, names, ext) ==
    IF names = {} THEN fs
    ELSE LET n == CHOOSE x \in names : TRUE
         IN WriteAll(WriteFile(fs, File(LandusePath(n, ext), NoConfig, <<>>, <<holder[n].v>>)),
                     holder, names \ {n}, ext)

\* UWBM.write_tables(): one csv per table, nothing without tables.
WriteTablesRun(t, fs) ==
    LET names == {n \in DOMAIN t : t[n].set}
    IN IF names = {} THEN IoOutcome(fs, "none", {})
       ELSE IoOutcome(WriteAll(fs, t, names, "csv"), "none", {"to_csv"})

\* UWBM.write_geoms(): one geojson per geometry, nothing without geoms.
WriteGeomsRun(g, fs) ==
    LET names == {n \in DOMAIN g : g[n].set}
    IN IF names = {} THEN IoOutcome(fs, "none", {})
       ELSE IoOutcome(WriteAll(fs, g, names, "geojson"), "none", {"to_file"})

Components == {"config", "forcing", "tables", "geoms"}

\* The calls of write() in the order of its statements.
WriteCalls ==
    <<"write_config", "write_model_config", "write_forcing", "write_tables", "write_geoms">>

ComponentOf(call) ==
    CASE call \in {"write_config", "write_model_config"} -> "config"
      [] call = "write_forcing" -> "forcing"
      [] call = "write_tables" -> "tables"
      [] call = "write_geoms" -> "geoms"

\* The components argument: None, or a list of names.
NoComponents == [none |-> TRUE, list |-> {}]
ComponentList(l) == [none |-> FALSE, list |-> l]

\* if components is None: components = ["config", "forcing", "tables", "geoms"]
Listed(components) == IF components.none THEN Components ELSE components.list

RunCall(call, g, t, c, fo, fs) ==
    CASE call = "write_config" -> WriteConfigRun(c, fs)
      [] call = "write_model_config" -> WriteModelConfigRun(c, fs, "None")
      [] call = "write_forcing" -> WriteForcingRun(c, fo, fs)
      [] call = "write_tables" -> WriteTablesRun(t, fs)
      [] call = "write_geoms" -> WriteGeomsRun(g, fs)

RaisedNever(out) == FALSE

\* An exception of a call leaves write() at that call.
Raised(out) == out.err # "none"

\* UWBM.write(components): the calls of the listed components one after the
\* other, up to the first that raises.  ran holds the calls made so far.
RECURSIVE WriteRun(_, _, _, _, _, _, _, _)
WriteRun(components, g, t, c, fo, out, ran, k) ==
    IF k > Len(WriteCalls) THEN [out |-> out, ran |-> ran]
    ELSE IF ComponentOf(WriteCalls[k]) \notin Listed(components)
    THEN WriteRun(components, g, t, c, fo, out, ran, k + 1)
    ELSE LET step == RunCall(WriteCalls[k], g, t, c, fo, out.files)
             next == IoOutcome(step.files,
                               IF out.err = "none" THEN step.err ELSE out.err,
                               out.calls \cup step.calls)
         IN IF Raised(step) THEN [out |-> next, ran |-> Append(ran, WriteCalls[k])]
            ELSE WriteRun(components, g, t, c, fo, next, Append(ran, WriteCalls[k]), k + 1)

ComponentArgs ==
    {NoComponents, ComponentList({"config"}), ComponentList({"forcing", "geoms"}),
     ComponentList({"tables"})}

Write ==
    \E components \in ComponentArgs :
        LET run == WriteRun(components, geoms, tables, config, forcing,
                            IoOutcome(files, "none", {}), <<>>, 1)
        IN /\ files' = run.out.files
           /\ err' = run.out.err
           /\ calls' = run.out.calls
           /\ last' = [op |-> "write", components |-> components, ran |-> run.ran]
           /\ UNCHANGED <<catalog, geoms, tables, config, forcing, reader, create,
                          osm_vars, frames>>

NextWrite ==
    \/ SetupProjectDates
    \/ SetupPrecipForcing
    \/ SetupPetForcing
    \/ WriteModelConfig
    \/ Write

InitIo ==
    /\ \E keys \in Templates : config = TemplateConfig(keys)
    /\ catalog = [avail |-> {}, nodata_raises |-> TRUE]
    /\ geoms = NoGeoms
    /\ tables = NoTables
    /\ last = [op |-> "init"]
    /\ err = "none"
    /\ calls = {}
    /\ forcing = NoForcing
    /\ files = NoFiles
    /\ reader = NoReader
    /\ create = NoCreate
    /\ osm_in = NoOsmArgs
    /\ osm_out = OsmRaised("pending")
    /\ tbl_in = <<>>
    /\ tbl_out = TblIdle
    /\ frames = NoFrames

NextIo ==
    \/ SetupProjectDates
    \/ WriteModelConfig
    \/ SetupPrecipForcing
    \/ SetupPetForcing
    \/ WriteForcing
    \/ ReadForcing

SpecIo == InitIo /\ [][NextIo]_vars

SpecWrite == InitIo /\ [][NextWrite]_vars

\* ------------------------------------------------------------ the workflows
InitOsm ==
    /\ \E region \in Regions, landuse_mapping \in OsmTables :
       \E roads \in LineLayersUpTo(MaxFeat) :
       \E railways \in LineLayersUpTo(MaxFeat - Cardinality(roads.feats)) :
       \E waterways \in LineLayersUpTo(MaxFeat - Cardinality(roads.feats)
                                       - Cardinality(railways.feats)) :
       \E buildings_area \in PolyLayersUpTo(MaxFeat - Cardinality(roads.feats)
               - Cardinality(railways.feats) - Cardinality(waterways.feats)) :
       \E water_area \in PolyLayersUpTo(MaxFeat - Cardinality(roads.feats)
               - Cardinality(railways.feats) - Cardinality(waterways.feats)
               - Cardinality(buildings_area)) :
          osm_in = OsmArgs(region, roads, railways, waterways, buildings_area,
                           water_area, landuse_mapping)
    /\ osm_out = OsmRaised("pending")
    /\ tbl_in = <<>>
    /\ tbl_out = TblIdle
    /\ frames = NoFrames
    /\ InitModel

\* A call of landuse_from_osm with the drawn arguments.
LanduseFromOsmCall ==
    /\ osm_out.raised = "pending"
    /\ osm_out' = LanduseFromOsm(osm_in.region, osm_in.roads, osm_in.railways,
                                 osm_in.waterways, osm_in.buildings_area,
                                 osm_in.water_area, osm_in.landuse_mapping)
    /\ UNCHANGED <<osm_in, tbl_in, tbl_out, uwbm_vars, io_vars, frames>>

\* The returned landuse_map is handed to landuse_table.
PassMap ==
    /\ osm_out.raised = "none"
    /\ tbl_out.state = "idle"
    /\ tbl_in' = MapRecords(osm_out.landuse_map, DissolveOrder)
    /\ tbl_out' = TblPending
    /\ UNCHANGED <<osm_in, osm_out, uwbm_vars, io_vars, frames>>

\* A call of landuse_table.
LanduseTableCall ==
    /\ tbl_out.state = "pending"
    /\ tbl_out' = TblReturned(LanduseTable(tbl_in))
    /\ UNCHANGED <<osm_in, osm_out, tbl_in, uwbm_vars, io_vars, frames>>

NextOsm == LanduseFromOsmCall \/ PassMap \/ LanduseTableCall

SpecOsm == InitOsm /\ [][NextOsm]_vars

InitTable ==
    /\ \E n \in 0 .. MaxRecs : \E types \in LuMapsOfLen[n] : tbl_in = LuMapOf(types)
    /\ tbl_out = TblPending
    /\ osm_in = OsmArgs({}, LineLayer(FALSE, {}), LineLayer(FALSE, {}),
                        LineLayer(FALSE, {}), {}, {},
                        MappingTable(AllColumns, "int64", {}))
    /\ osm_out = OsmRaised("pending")
    /\ frames = NoFrames
    /\ InitModel

NextTable == LanduseTableCall

SpecTable == InitTable /\ [][NextTable]_vars


\* The workflow functions called on argument objects of every kind: raw or
\* clean geometries, empty or non-empty building and water layers.
InitFrame ==
    /\ \E raw \in SUBSET GeometryArgs, none \in SUBSET {"buildings_area", "water_area"} :
          frames = [heap |-> [a \in ArgNames |->
                                Frame(ArgColumns(a), a \notin raw, a \in none)],
                    called |-> {}]
    /\ osm_in = NoOsmArgs
    /\ osm_out = OsmRaised("pending")
    /\ tbl_in = <<>>
    /\ tbl_out = TblIdle
    /\ InitModel

FrameLanduseFromOsm ==
    /\ frames' = [heap |-> HeapAfter(frames.heap, OsmParams, LanduseFromOsmBody),
                  called |-> frames.called \cup {"landuse_from_osm"}]
    /\ UNCHANGED <<osm_vars, uwbm_vars, io_vars>>

FrameLanduseTable ==
    /\ frames' = [heap |-> HeapAfter(frames.heap, TableParams, LanduseTableBody),
                  called |-> frames.called \cup {"landuse_table"}]
    /\ UNCHANGED <<osm_vars, uwbm_vars, io_vars>>

NextFrame == FrameLanduseFromOsm \/ FrameLanduseTable

SpecFrame == InitFrame /\ [][NextFrame]_vars

\* ------------------------------------------------ claims: landuse_from_osm
OsmReturned == osm_out.raised = "none"

ClassesAt(lu_map, c) == {f.reclass : f \in {h \in lu_map : c \in h.geometry}}

\* C1: whenever landuse_from_osm returns, the records of landuse_map are
\* pairwise disjoint, cover no cell outside the region, and every cell of the
\* region lies in exactly one of them.
C1_Partition ==
    OsmReturned =>
        /\ \A f \in osm_out.landuse_map : f.geometry \subseteq osm_in.region
        /\ \A f, g \in osm_out.landuse_map :
              f # g => f.geometry \cap g.geometry = {}
        /\ \A c \in osm_in.region :
              Cardinality({f \in osm_out.landuse_map : c \in f.geometry}) = 1

\* C1 witness: a returned map of at least two classes, built from a building
\* that overlaps another clipped layer and a line whose buffer reaches beyond
\* the strip, hence beyond the region.
C1_Witness ==
    /\ OsmReturned
    /\ Cardinality(osm_out.landuse_map) >= 2
    /\ \E l \in osm_in.roads.feats \cup osm_in.railways.feats \cup osm_in.waterways.feats :
          l.pos \in {0, NCells}
    /\ Cover(osm_out.da_paved_roof) \cap
         (Cover(osm_out.da_water) \cup Cover(osm_out.da_closed_paved)
          \cup Cover(osm_out.da_open_paved)) # {}

\* The class the fixed order unpaved < water < open_paved < closed_paved <
\* paved_roof gives a cell, from the clipped layers that cover it.
HighestClassAt(c) ==
    IF c \in Cover(osm_out.da_paved_roof) THEN "paved_roof"
    ELSE IF c \in Cover(osm_out.da_closed_paved) THEN "closed_paved"
    ELSE IF c \in Cover(osm_out.da_open_paved) THEN "open_paved"
    ELSE IF c \in Cover(osm_out.da_water) THEN "water"
    ELSE "unpaved"

\* C2: in the returned landuse_map every cell of the region has the highest
\* class among the clipped layers covering it, and unpaved when none does.
C2_Priority ==
    OsmReturned =>
        \A c \in osm_in.region :
            ClassesAt(osm_out.landuse_map, c) = {HighestClassAt(c)}

\* C2 witness: a cell covered by both the closed_paved and the open_paved
\* buffers, classified closed_paved.
C2_Witness ==
    /\ OsmReturned
    /\ \E c \in osm_in.region :
          /\ c \in Cover(osm_out.da_closed_paved) \cap Cover(osm_out.da_open_paved)
          /\ ClassesAt(osm_out.landuse_map, c) = {"closed_paved"}

\* C10 (as claimed): with an empty building layer landuse_from_osm and
\* landuse_table never raise, whatever the other layers, and the table has no
\* pr row or a pr row of area 0.
C10_EmptyBuildingsNeverRaise ==
    (osm_in.buildings_area = {} /\ osm_out.raised # "pending") =>
        /\ OsmReturned
        /\ tbl_out.state = "returned" =>
              \A r \in tbl_out.rows : r.reclass = "pr" => r.area = 0


\* --------------------------------------------------- claims: landuse_table
TblReturnedNow == tbl_out.state = "returned"

Row(code) == CHOOSE r \in tbl_out.rows : r.reclass = code
HasRow(code) == \E r \in tbl_out.rows : r.reclass = code

RecordsOf(lu_map, k) == SelectSeq(lu_map, LAMBDA r : r.reclass = k)
ClassesOf(lu_map) == {lu_map[i].reclass : i \in 1 .. Len(lu_map)}
OneRecordPerClass(lu_map) == \A k \in ClassesOf(lu_map) : Len(RecordsOf(lu_map, k)) = 1
TotalOf(lu_map) == Round0(SumArea(lu_map))

\* C3 (as claimed): for every land-use map, the empty one included, the ow
\* row of the returned table has frac >= 0.01.
C3_WaterFloor ==
    TblReturnedNow =>
        /\ HasRow("ow")
        /\ Row("ow").frac.k = "inf" \/ (Row("ow").frac.k = "num" /\ Row("ow").frac.v >= 10)

\* C4 (as claimed): for every land-use map whose water area is 0, ow frac is
\* exactly 0.01 and every other class has frac = round(area / (total / 0.99), 3).
C4_ZeroWater ==
    (TblReturnedNow /\ SumArea(RecordsOf(tbl_in, "water")).n = 0) =>
        /\ HasRow("ow") /\ Row("ow").frac = Num(10)
        /\ \A k \in ClassesOf(tbl_in) \ {"water"} :
              /\ HasRow(ShortCode(k))
              /\ Row(ShortCode(k)).frac =
                    FracOf(SumArea(RecordsOf(tbl_in, k)),
                           RatDiv(Rat(TotalOf(tbl_in), 1), Rat(99, 100)))

\* C6 (as claimed): for a map without features the table has the tot_area
\* row alone, with area 0 and frac 1.
C6_EmptyMap ==
    (TblReturnedNow /\ tbl_in = <<>>) =>
        tbl_out.rows = {[reclass |-> "tot_area", area |-> 0, frac |-> Num(1000)]}

ClassRows == {r \in tbl_out.rows : r.reclass # "tot_area"}

RECURSIVE SumFracOfRows(_)
SumFracOfRows(rows) ==
    IF rows = {} THEN 0
    ELSE LET r == CHOOSE x \in rows : TRUE
         IN r.frac.v + SumFracOfRows(rows \ {r})

FracsFinite == \A r \in ClassRows : r.frac.k = "num"
FracSumWithin(tol) ==
    /\ FracsFinite
    /\ SumFracOfRows(ClassRows) >= 1000 - tol
    /\ SumFracOfRows(ClassRows) <= 1000 + tol

LanduseCalled == last.op = "setup_landuse"
ModelUntouched == geoms' = geoms /\ tables' = tables /\ config' = config
NothingFetched ==
    calls' \cap {"get_geodataframe", "landuse_from_osm", "set_geoms"} = {}

\* The table a setup_landuse call names, when the catalog has it.
NamedTable(fn) == CatalogTable(IF fn = "None" THEN "osm_mapping_default" ELSE fn)
TableFound(fn) == fn = "None" \/ fn \in TableNames
HasInvalidReclass(table) ==
    "reclass" \in table.cols /\ \E r \in table.rows : r.reclass \notin ValidReclass

\* C7: a setup_landuse call whose mapping table holds a reclass value outside
\* the five classes raises before any source layer is fetched and before any
\* geometry operation, and leaves geoms, tables and config as they were.
C7_InvalidReclassRejected ==
    [][(/\ last'.op = "setup_landuse"
        /\ TableFound(last'.landuse_mapping_fn)
        /\ HasInvalidReclass(NamedTable(last'.landuse_mapping_fn)))
       => (err' # "none" /\ NothingFetched /\ ModelUntouched)]_vars

\* C7 witness: such a call on a model that has a region, raising IOError after
\* the table was read.
C7_Witness ==
    /\ LanduseCalled
    /\ last.source = "osm"
    /\ last.landuse_mapping_fn = "invalid_class"
    /\ geoms.region.set
    /\ err = "IOError"
    /\ calls = {"get_dataframe"}

NumericDtypes == {"float64", "int64", "float32", "int32"}

\* C8 (as claimed): setup_landuse raises and stores nothing when the mapping
\* table lacks a required column or its width_t is not numeric, and a table
\* with the three columns, recognized reclass values and a numeric width_t
\* passes the validation.
C8_TableValidation ==
    [][(last'.op = "setup_landuse" /\ last'.source = "osm"
        /\ TableFound(last'.landuse_mapping_fn))
       => LET table == NamedTable(last'.landuse_mapping_fn)
          IN /\ (~(RequiredColumns \subseteq table.cols)
                 \/ table.dtype \notin NumericDtypes)
                => (err' # "none" /\ ModelUntouched)
             /\ (/\ RequiredColumns \subseteq table.cols
                 /\ \A r \in table.rows : r.reclass \in ValidReclass
                 /\ table.dtype \in NumericDtypes)
                => "get_geodataframe" \in calls']_vars

\* C9: a setup_landuse call with a source other than "osm" raises before the
\* mapping table is looked up or a layer fetched, and changes no geoms, tables
\* or config entry.
C9_UnknownSourceRejected ==
    [][(last'.op = "setup_landuse" /\ last'.source # "osm")
       => (err' # "none" /\ calls' = {} /\ ModelUntouched)]_vars

\* C9 witness: such a call, naming a valid table, on a model that has a region.
C9_Witness ==
    /\ LanduseCalled
    /\ last.source = "esa"
    /\ last.landuse_mapping_fn = "osm_mapping"
    /\ geoms.region.set
    /\ err = "IOError"
    /\ config["soiltype"] = Absent

\* A setup_landuse call that got through the validation, fetched its layers
\* and received a map from landuse_from_osm.
MapBuilt == last'.op = "setup_landuse" /\ "set_geoms" \in calls'

\* The map landuse_from_osm builds from the layers the call has stored.
BuiltMap ==
    LanduseFromOsm(geoms'.region.v, geoms'.osm_roads.v, geoms'.osm_railways.v,
                   geoms'.osm_waterways.v, geoms'.osm_buildings.v, geoms'.osm_water.v,
                   NamedTable(last'.landuse_mapping_fn)).landuse_map

\* C11 (as claimed): a setup_landuse call that has its map completes, and then
\* for each of op, ow, up, pr, cp the config holds tot_<code>_area and
\* <code>_frac of that code's row of landuse_table, and tot_area the area of
\* the tot_area row.
C11_ConfigProjection ==
    [][MapBuilt =>
         /\ err' = "none"
         /\ tables'.landuse_table.set
         /\ \A r \in tables'.landuse_table.rows :
               /\ r.reclass \in TableCodes =>
                     /\ config'[AreaKey(r.reclass)] = r.area
                     /\ config'[FracKey(r.reclass)] = r.frac
               /\ r.reclass = "tot_area" => config'["tot_area"] = r.area]_vars

\* C12 (as claimed): a setup_landuse call that has its map completes with the
\* dissolved map of landuse_from_osm stored under landuse_map, and with
\* landuse_table computed from that stored map.
C12_StoredMap ==
    [][MapBuilt =>
         /\ err' = "none"
         /\ geoms'.landuse_map.set
         /\ geoms'.landuse_map.v = BuiltMap
         /\ tables'.landuse_table.set
         /\ tables'.landuse_table.rows =
               LanduseTable(MapRecords(geoms'.landuse_map.v, DissolveOrder))]_vars

\* ------------------------------------------- claims: landuse_from_osm (2)
\* C13: the returned landuse_map has one record for each class that some cell
\* of the region ends up in, no record for any other class, and no empty
\* record.
C13_OneRecordPerClass ==
    OsmReturned =>
        /\ \A f, g \in osm_out.landuse_map : f.reclass = g.reclass => f = g
        /\ \A f \in osm_out.landuse_map : f.geometry # {}
        /\ {f.reclass : f \in osm_out.landuse_map} =
              {HighestClassAt(c) : c \in osm_in.region}

\* C13 witness: a returned map with a paved_roof or water record, where the
\* clipped paved_roof layer or the clipped water layer has several features.
C13_Witness ==
    /\ OsmReturned
    /\ \/ Cardinality(osm_out.da_paved_roof) >= 2
       \/ Cardinality(osm_out.da_water) >= 2
    /\ \E f \in osm_out.landuse_map : f.reclass \in {"paved_roof", "water"}

\* ---------------------------------------------- claims: landuse_table (2)
\* C15: the returned table has at most one row per code, only the codes pr,
\* cp, op, up, ow and tot_area, and exactly one tot_area row, whose frac is 1.
C15_TableShape ==
    TblReturnedNow =>
        /\ \A r \in tbl_out.rows : r.reclass \in TableCodes \cup {"tot_area"}
        /\ \A r, q \in tbl_out.rows : r.reclass = q.reclass => r = q
        /\ HasRow("tot_area")
        /\ Row("tot_area").frac = Num(1000)

\* C15 witness: a table of all six codes returned for a map that has several
\* records of one class.
C15_Witness ==
    /\ TblReturnedNow
    /\ ~OneRecordPerClass(tbl_in)
    /\ Cardinality(tbl_out.rows) = 6

\* -------------------------------------------- claims: argument objects
\* C14: a call of landuse_from_osm or landuse_table leaves every argument
\* object as it was: same columns, same geometries, same rows.
C14_ArgumentsUnmodified == [][frames'.heap = frames.heap]_vars

\* C14 witness: both functions were called with a region and a non-empty
\* building layer whose geometries buffer(0) would change, and the caller's
\* region and lu_map are as they were.
C14_Witness ==
    /\ frames.called = {"landuse_from_osm", "landuse_table"}
    /\ ~frames.heap["region"].clean
    /\ ~frames.heap["buildings_area"].clean
    /\ ~frames.heap["buildings_area"].empty
    /\ frames.heap["lu_map"].cols = {"reclass", "geometry"}

\* --------------------------------------------------- claims: setup_project
ProjectKeys == {"starttime", "endtime", "timestepsecs", "name"}
ProjectUnchanged ==
    /\ geoms'.region = geoms.region
    /\ \A k \in ProjectKeys : config'[k] = config[k]

\* C17: a setup_project call with ts other than 3600 or 86400 raises
\* ValueError, one with a valid ts and a region kind other than geom or bbox
\* raises IOError, both leaving the region and the four run entries of the
\* config as they were; any other call sets the four entries and stores the
\* region in the requested crs.
C17_SetupProjectAllOrNothing ==
    [][last'.op = "setup_project" =>
         /\ last'.ts \notin {3600, 86400} =>
               err' = "ValueError" /\ ProjectUnchanged
         /\ (last'.ts \in {3600, 86400} /\ last'.kind \notin {"geom", "bbox"}) =>
               err' = "IOError" /\ ProjectUnchanged
         /\ (last'.ts \in {3600, 86400} /\ last'.kind \in {"geom", "bbox"}) =>
               /\ err' = "none"
               /\ \A k \in ProjectKeys : config'[k] # Absent
               /\ config'["timestepsecs"] = last'.ts
               /\ geoms'.region.set
               /\ geoms'.region.crs = last'.crs]_vars

\* C17 witness: a rejected call on a model that an earlier call had set up.
C17_Witness ==
    /\ last.op = "setup_project"
    /\ err \in {"ValueError", "IOError"}
    /\ geoms.region.set
    /\ config["name"] # Absent

\* ------------------------------------------------------ config schemas
\* UWMBConfig.create and UwbmConfig.create on a dict.  Three fields stand for
\* the schema; a key of the dict is absent, holds a value of the field's type
\* ("ok") or one that fails the field's validation ("bad").
ConfigClasses == {"UWMBConfig", "UwbmConfig"}
SchemaFields == {"title", "name", "soiltype"}
DataKeys == SchemaFields \cup {"unknown_parameter"}

\* The fields declared with default=...
RequiredFields(cls) ==
    IF cls = "UWMBConfig" THEN {"title", "soiltype"} ELSE {"name"}

GivenKeys(data) == {k \in DOMAIN data : data[k] # "absent"}

\* The errors of cls(**data): a given field that fails validation, a
\* required field that is not given.  Keys that are no field are ignored.
ValidationErrors(cls, data) ==
    {k \in SchemaFields : data[k] = "bad"} \cup (RequiredFields(cls) \ GivenKeys(data))

CreateOutcome(state, invalid, unknown) ==
    [state |-> state, invalid |-> invalid, unknown |-> unknown]

\* create(data)
Create(cls, data) ==
    LET errors == ValidationErrors(cls, data)
        unknown_keys == GivenKeys(data) \ SchemaFields
    IN IF errors = {} THEN CreateOutcome("object", {}, {})
       ELSE CreateOutcome("ValueError", errors, unknown_keys)

CreateCall ==
    /\ create.out.state = "pending"
    /\ create' = [create EXCEPT !.out = Create(create.cls, create.data)]
    /\ err' = IF create'.out.state = "object" THEN "none" ELSE create'.out.state
    /\ calls' = {"create"}
    /\ last' = [op |-> "create"]
    /\ UNCHANGED <<catalog, geoms, tables, config, forcing, files, reader,
                   osm_vars, frames>>

InitCreate ==
    /\ \E cls \in ConfigClasses, data \in [DataKeys -> {"absent", "ok", "bad"}] :
         /\ data["unknown_parameter"] # "bad"
         /\ create = [cls |-> cls, data |-> data, out |-> CreateOutcome("pending", {}, {})]
    /\ config = NoConfig
    /\ catalog = [avail |-> {}, nodata_raises |-> TRUE]
    /\ geoms = NoGeoms
    /\ tables = NoTables
    /\ last = [op |-> "init"]
    /\ err = "none"
    /\ calls = {}
    /\ forcing = NoForcing
    /\ files = NoFiles
    /\ reader = NoReader
    /\ osm_in = NoOsmArgs
    /\ osm_out = OsmRaised("pending")
    /\ tbl_in = <<>>
    /\ tbl_out = TblIdle
    /\ frames = NoFrames

NextCreate == CreateCall

SpecCreate == InitCreate /\ [][NextCreate]_vars

\* ------------------------------------------------ claims: the model's files
FileAt(fs, path) == CHOOSE f \in fs : f.path = path
HasFile(fs, path) == \E f \in fs : f.path = path

\* C16: the config has a name entry exactly when setup_project has completed;
\* write_model_config without config_fn raises ValueError and writes nothing
\* while there is no name; once there is one it validates the config, and
\* either raises ValueError writing nothing or writes the config to
\* input/config/ep_neighbourhood_<name>.ini and touches no other file.
C16_WriteModelConfig ==
    [][/\ (config'["name"] = Absent) <=> ~geoms'.region.set
       /\ (last'.op = "write_model_config" /\ last'.config_fn = "None") =>
            /\ config["name"] = Absent => err' = "ValueError" /\ files' = files
            /\ config["name"] # Absent =>
                 LET path == Path("input/config", "ep_neighbourhood", config["name"],
                                  Absent, Absent)
                 IN \/ /\ err' = "ValueError"
                       /\ \E k \in RequiredConfigKeys : config[k] = Absent
                       /\ files' = files
                    \/ /\ err' = "none"
                       /\ \A k \in RequiredConfigKeys : config[k] # Absent
                       /\ HasFile(files', path)
                       /\ FileAt(files', path).config = config
                       /\ \A f \in files' : f.path # path => f \in files]_vars

\* C16 witness: a call without config_fn that raised before setup_project,
\* is repeated after it and leaves the file of the model's name.
C16_Witness ==
    /\ last.op = "write_model_config"
    /\ last.config_fn = "None"
    /\ err = "none"
    /\ files = {File(Path("input/config", "ep_neighbourhood", 2, Absent, Absent),
                     config, <<>>, <<>>)}

\* C18: write_forcing returns without raising and without writing when no
\* forcing is set, raises ValueError and writes nothing when forcing is set
\* but one of P_atm, Ref.grass, E_pot_OW is missing, and writes the forcing
\* file only when all three are there.
C18_WriteForcing ==
    [][last'.op = "write_forcing" =>
         /\ forcing = <<>> => err' = "none" /\ files' = files
         /\ (forcing # <<>> /\ {"P_atm", "Ref.grass", "E_pot_OW"} \ ForcingColumns(forcing) # {})
              => err' = "ValueError" /\ files' = files
         /\ files' # files => {"P_atm", "Ref.grass", "E_pot_OW"} \subseteq ForcingColumns(forcing)
         /\ {"P_atm", "Ref.grass", "E_pot_OW"} \subseteq ForcingColumns(forcing)
              => err' = "none" /\ ForcingFiles(files') # {}]_vars

\* C18 witness: write_forcing raised with only the precipitation set.
C18_Witness ==
    /\ last.op = "write_forcing"
    /\ err = "ValueError"
    /\ ForcingColumns(forcing) = {"P_atm"}
    /\ ForcingFiles(files) = {}

\* C19: forcing read back by read_forcing has one entry per written column,
\* each with the timestamps that were written and the rounded values of the
\* file.
C19_RoundTrip ==
    [][(last'.op = "read_forcing" /\ HasFile(files, ForcingPath(config))) =>
         LET file == FileAt(files, ForcingPath(config))
         IN /\ {e.col : e \in reader'.forcing} = {"P_atm", "Ref.grass", "E_pot_OW"}
            /\ \A e \in reader'.forcing :
                 /\ e.index = SteppedIndex(config)
                 /\ \E k \in DOMAIN ForcingColumnOrder :
                      /\ ForcingColumnOrder[k] = e.col
                      /\ e.vals = [i \in DOMAIN file.rows |-> file.rows[i].vals[k]]]_vars

\* C20: create raises a single ValueError listing the unknown keys whenever
\* the dict holds a key that is no field of the schema, also when every
\* known key is valid; a dict with only known, valid keys yields a config
\* object.
C20_UnknownKeysRejected ==
    create.out.state # "pending" =>
        /\ create.data["unknown_parameter"] # "absent" =>
             /\ create.out.state = "ValueError"
             /\ "unknown_parameter" \in create.out.unknown
        /\ (/\ create.data["unknown_parameter"] = "absent"
            /\ \A k \in SchemaFields : create.data[k] # "bad"
            /\ RequiredFields(create.cls) \subseteq GivenKeys(create.data))
             => create.out.state = "object"

\* ------------------------------------------- claims: landuse_from_osm (3)
\* The running composite after the first n layers of LayerKeys were laid
\* over da_unpaved, from the layers the call returned.
CompositeAfter(n) == CombineAll(osm_out.da_unpaved, osm_out, SubSeq(LayerKeys, 1, n))

NonEmptyKeys == SelectSeq(LayerKeys, LAMBDA key : osm_out[key] # {})

\* C21: _combine_layers with an empty layer returns the base as it is: in
\* landuse_from_osm a step whose layer is empty leaves the running composite,
\* hence the class of every cell, as it was, and the returned map is the one
\* built from the non-empty layers alone.
C21_EmptyLayerNoOp ==
    OsmReturned =>
        /\ \A n \in 1 .. Len(LayerKeys) :
              osm_out[LayerKeys[n]] = {} =>
                 /\ CompositeAfter(n) = CompositeAfter(n - 1)
                 /\ \A c \in Universe :
                       ClassesAt(CompositeAfter(n), c) = ClassesAt(CompositeAfter(n - 1), c)
        /\ osm_out.landuse_map =
              Dissolve(Explode(CombineAll(osm_out.da_unpaved, osm_out, NonEmptyKeys)))

\* C21 witness: an empty open_paved layer met by a composite that already
\* holds water, followed by a closed_paved layer.
C21_Witness ==
    /\ OsmReturned
    /\ osm_out.da_water # {}
    /\ osm_out.da_open_paved = {}
    /\ osm_out.da_closed_paved # {}
    /\ Cardinality(osm_out.landuse_map) >= 2

OsmEnded == osm_out.raised # "pending"

SomeLayerEmpty ==
    \/ \E a \in {"roads", "railways", "waterways"} : osm_in[a].feats = {}
    \/ osm_in.buildings_area = {}
    \/ osm_in.water_area = {}

\* C22 (as claimed): whichever source layers are empty or are the substitutes
\* for layers that could not be fetched, all three line layers included,
\* landuse_from_osm returns, and its map is the one built from the remaining
\* layers.
C22_EmptyLayersNeverFail ==
    (OsmEnded /\ SomeLayerEmpty) =>
        /\ OsmReturned
        /\ osm_out.landuse_map =
              Dissolve(Explode(CombineAll(osm_out.da_unpaved, osm_out, NonEmptyKeys)))

LineArgs == {"roads", "railways", "waterways"}

\* The map landuse_from_osm returns for the drawn arguments with one line
\* feature taken out of its layer.
MapWithout(a, l) ==
    LET args == [osm_in EXCEPT ![a].feats = @ \ {l}]
    IN LanduseFromOsm(args.region, args.roads, args.railways, args.waterways,
                      args.buildings_area, args.water_area,
                      args.landuse_mapping).landuse_map

MappedClasses(fclass) ==
    {r.reclass : r \in {q \in osm_in.landuse_mapping.rows : q.fclass = fclass}}

\* C23: a line feature whose fclass has no row in the mapping table adds no
\* area to any class: the returned map is the map of the call without it.
C23_UnmappedLineDropped ==
    OsmReturned =>
        \A a \in LineArgs : \A l \in osm_in[a].feats :
            MappedClasses(l.fclass) = {} => osm_out.landuse_map = MapWithout(a, l)

\* C23 witness: an unmapped line inside the region next to a mapped line
\* that does give the map a second class.
C23_Witness ==
    /\ OsmReturned
    /\ \E a \in LineArgs : \E l \in osm_in[a].feats :
          /\ MappedClasses(l.fclass) = {}
          /\ LineBuffer(l.pos, 1) \cap osm_in.region # {}
    /\ osm_out.da_open_paved # {}

\* C30: a line feature whose fclass is mapped to unpaved or to paved_roof
\* only adds no area: the returned map is the map of the call without it.
C30_OnlyBufferedClasses ==
    OsmReturned =>
        \A a \in LineArgs : \A l \in osm_in[a].feats :
            (MappedClasses(l.fclass) # {}
             /\ MappedClasses(l.fclass) \subseteq {"unpaved", "paved_roof"})
                => osm_out.landuse_map = MapWithout(a, l)

\* C30 witness: a line mapped to paved_roof with a positive width, inside the
\* region, on a map that has no paved_roof record.
C30_Witness ==
    /\ OsmReturned
    /\ \E a \in LineArgs : \E l \in osm_in[a].feats :
          /\ MappedClasses(l.fclass) = {"paved_roof"}
          /\ \E r \in osm_in.landuse_mapping.rows : r.fclass = l.fclass /\ r.width_t > 0
          /\ LineBuffer(l.pos, 1) \cap osm_in.region # {}
    /\ \A f \in osm_out.landuse_map : f.reclass # "paved_roof"
    /\ Cardinality(osm_out.landuse_map) >= 2

ReturnedLayers == {"da_unpaved", "da_water", "da_open_paved", "da_closed_paved", "da_paved_roof"}

\* C24: every class-tagged layer landuse_from_osm returns lies within the
\* region: no record of da_unpaved, da_water, da_open_paved, da_closed_paved
\* or da_paved_roof covers a cell outside it, and none is an empty geometry.
C24_LayersWithinRegion ==
    OsmReturned =>
        \A key \in ReturnedLayers : \A f \in osm_out[key] :
            f.geometry # {} /\ f.geometry \subseteq osm_in.region

\* C24 witness: a building and a buffered line that both reach outside the
\* region and are returned clipped.
C24_Witness ==
    /\ OsmReturned
    /\ \E g \in osm_in.buildings_area :
          g \cap osm_in.region # {} /\ ~(g \subseteq osm_in.region)
    /\ osm_out.da_paved_roof # {}
    /\ \E f \in LinestringBuffer(MergeLines(osm_in.roads, osm_in.railways, osm_in.waterways,
                                            osm_in.landuse_mapping), "open_paved") :
          f.geometry \cap osm_in.region # {} /\ ~(f.geometry \subseteq osm_in.region)
    /\ osm_out.da_open_paved # {}

\* ---------------------------------------------- claims: landuse_table (3)
\* The denominator of the fractions if nothing were rounded before them: the
\* sum of the record areas, divided by 0.99 when water is below 1% of it.
UnroundedDenominator(lu_map) ==
    LET total == SumArea(lu_map)
    IN IF RatLess(SumArea(RecordsOf(lu_map, "water")), RatMul(WaterShare, total))
       THEN RatDiv(total, FloorRescale)
       ELSE total

\* C25 (as claimed): nothing is rounded before the fractions are computed:
\* for a map with one record per class and a positive area, the frac of every
\* class but water is its area over the unrounded total (over that total /
\* 0.99 when water is below 1% of the unrounded total), rounded to 3
\* decimals, and the tot_area row holds the total rounded to 3 decimals.
C25_RoundingOnlyAtOutput ==
    (TblReturnedNow /\ OneRecordPerClass(tbl_in) /\ SumArea(tbl_in).n > 0) =>
        /\ Row("tot_area").area = Round3(SumArea(tbl_in))
        /\ \A k \in ClassesOf(tbl_in) \ {"water"} :
              Row(ShortCode(k)).frac =
                  FracOf(SumArea(RecordsOf(tbl_in, k)), UnroundedDenominator(tbl_in))

RECURSIVE SumAreaOfRows(_)
SumAreaOfRows(rows) ==
    IF rows = {} THEN 0
    ELSE LET r == CHOOSE x \in rows : TRUE
         IN r.area + SumAreaOfRows(rows \ {r})

\* C26 (as claimed): the area of the tot_area row equals the sum of the
\* areas of the class rows up to rounding (one area unit), in the water-floor
\* branch and in the plain branch.
C26_TotalIsSumOfClasses ==
    TblReturnedNow =>
        /\ SumAreaOfRows(ClassRows) - Row("tot_area").area <= 1000
        /\ Row("tot_area").area - SumAreaOfRows(ClassRows) <= 1000

\* A map of an unpaved and a water record whose areas, in units of
\* 1/AreaDen, are total - w and w.
SplitMap(w, total) ==
    <<MapRec("unpaved", Rat(total - w, AreaDen)), MapRec("water", Rat(w, AreaDen))>>

Units(area) == (area.n * AreaDen) \div area.d

OwRow(rows) == CHOOSE r \in rows : r.reclass = "ow"

\* C27 (as claimed): for the maps that split the area of a returned map
\* between unpaved and water, one unit of area more water never gives a
\* smaller ow frac nor a smaller ow area; the splits tried start at the map's
\* own and go up to 3% more water.
C27_MonotoneInWater ==
    (/\ TblReturnedNow
     /\ ClassesOf(tbl_in) \subseteq {"unpaved", "water"}
     /\ "unpaved" \in ClassesOf(tbl_in)
     /\ OneRecordPerClass(tbl_in)) =>
        LET w == Units(SumArea(RecordsOf(tbl_in, "water")))
            total == Units(SumArea(tbl_in))
            TableOf(k) == IF k = w THEN tbl_out.rows ELSE LanduseTable(SplitMap(k, total))
        IN \A k \in w .. (w + (3 * total) \div 100) :
              k + 1 <= total =>
                 /\ OwRow(TableOf(k)).frac.v <= OwRow(TableOf(k + 1)).frac.v
                 /\ OwRow(TableOf(k)).area <= OwRow(TableOf(k + 1)).area

\* ------------------------------------------------------------------------
\* claims: write_forcing and write
\* ------------------------------------------------------------------------

\* The same entries inserted in another order.
Reorderings(fo) ==
    {[i \in DOMAIN fo |-> fo[p[i]]] :
        p \in {q \in [DOMAIN fo -> DOMAIN fo] : \A i, j \in DOMAIN fo : q[i] = q[j] => i = j}}

\* C28: the forcing file written by write_forcing does not depend on the
\* order in which setup_precip_forcing and setup_pet_forcing were called: the
\* written columns are P_atm, Ref.grass, E_pot_OW in that order, each with the
\* rounded values of the entry of that name, whatever the insertion order.
C28_OrderIndependent ==
    [][(last'.op = "write_forcing" /\ files' # files) =>
         LET f == FileAt(files', ForcingPath(config))
         IN /\ f.cols = <<"date", "P_atm", "Ref.grass", "E_pot_OW">>
            /\ \A i \in DOMAIN f.rows :
                  f.rows[i].vals = <<Round2(ForcingVals(forcing, "P_atm")[i]),
                                     Round2(ForcingVals(forcing, "Ref.grass")[i]),
                                     Round2(ForcingVals(forcing, "E_pot_OW")[i])>>
            /\ \A other \in Reorderings(forcing) :
                  WriteForcingRun(config, other, files).files = files']_vars

\* C28 witness: the file was written by a model whose pet forcing was set up
\* before its precipitation.
C28_Witness ==
    /\ last.op = "write_forcing"
    /\ err = "none"
    /\ FrameColumns(forcing) = <<"E_pot_OW", "Ref.grass", "P_atm">>
    /\ HasFile(files, ForcingPath(config))
    /\ FileAt(files, ForcingPath(config)).cols = <<"date", "P_atm", "Ref.grass", "E_pot_OW">>

\* The paths a call of write() writes to.
CallPaths(call, g, t, c) ==
    CASE call = "write_config" -> {ConfigPath}
      [] call = "write_model_config" -> {ModelConfigPath(c["name"], "None")}
      [] call = "write_forcing" -> {ForcingPath(c)}
      [] call = "write_tables" -> {LandusePath(n, "csv") : n \in DOMAIN t}
      [] call = "write_geoms" -> {LandusePath(n, "geojson") : n \in DOMAIN g}

\* What a call that returned has left on disk.
CallOutput(call, g, t, c, fo, fs) ==
    CASE call = "write_config" ->
             HasFile(fs, ConfigPath) /\ FileAt(fs, ConfigPath).config = c
      [] call = "write_model_config" ->
             /\ HasFile(fs, ModelConfigPath(c["name"], "None"))
             /\ FileAt(fs, ModelConfigPath(c["name"], "None")).config = c
      [] call = "write_forcing" -> fo # <<>> => HasFile(fs, ForcingPath(c))
      [] call = "write_tables" ->
             \A n \in DOMAIN t : t[n].set => HasFile(fs, LandusePath(n, "csv"))
      [] call = "write_geoms" ->
             \A n \in DOMAIN g : g[n].set => HasFile(fs, LandusePath(n, "geojson"))

InListed(call) ==
    ComponentOf(call) \in
        (IF last.components.none THEN {"config", "forcing", "tables", "geoms"}
         ELSE last.components.list)

\* C29: write() makes the calls write_config, write_model_config,
\* write_forcing, write_tables, write_geoms in that order, leaving out those
\* of components that are not listed, which are never written; when a call
\* raises, write() ends there: no later call has written anything and what
\* the earlier calls wrote is on disk.
C29_WriteOrder ==
    [][last'.op = "write" =>
         LET expected == SelectSeq(<<"write_config", "write_model_config", "write_forcing",
                                     "write_tables", "write_geoms">>, InListed)'
             ran == last'.ran
             returned == IF err' = "none" THEN Len(ran) ELSE Len(ran) - 1
         IN /\ Len(ran) <= Len(expected)
            /\ ran = SubSeq(expected, 1, Len(ran))
            /\ err' = "none" => ran = expected
            /\ err' # "none" => ran # <<>>
            /\ \A f \in files' \ files :
                  \E k \in 1 .. returned : f.path \in CallPaths(ran[k], geoms, tables, config)
            /\ \A k \in 1 .. returned :
                  CallOutput(ran[k], geoms, tables, config, forcing, files')]_vars

\* C29 witness: write() with the default components raised in write_forcing;
\* both config files are on disk and the region, though set, is not written.
C29_Witness ==
    /\ last.op = "write"
    /\ last.components.none
    /\ err = "ValueError"
    /\ last.ran = <<"write_config", "write_model_config", "write_forcing">>
    /\ geoms.region.set
    /\ {f.path : f \in files} = {ConfigPath, ModelConfigPath(config["name"], "None")}

====
